---- MODULE Spec2Model ----
(***************************************************************************)
(* xGen Animated Maps: the frame cache, the deferred tick scheduler        *)
(* (BackgroundWorker), the preview session and the batch converter of      *)
(* PtxBaker, as found in src/xgenanimatedmaps.py.                          *)
(*                                                                         *)
(* Maya runs everything on one thread: a handler (a button callback, a     *)
(* deferred callback, an attribute-changed callback) runs to completion    *)
(* before the next one starts, so every handler is one atomic action.      *)
(***************************************************************************)
EXTENDS Integers, Sequences, FiniteSets, TLC

(* ---------------------------- bounds ---------------------------------- *)

\* Frames of the timeline are 0..MaxFrame; playback bounds reach MaxFrame+1.
MaxFrame == 2

\* Deferred callbacks that may sit in Maya's idle queue at the same time.
MaxDeferred == 3

\* Attribute-changed callbacks that may be registered on the emitter.
MaxListeners == 2

Frames == 0..MaxFrame

Times == 0..(MaxFrame + 1)

\* The first frames of the playback range that are tried.
MinTimes == {0, 1}

\* Python's None, for an optional frame.
None == -1

(* ---------------------------- state ----------------------------------- *)

VARIABLES
    is_busy,        \* BackgroundWorker.is_busy
    _stop,          \* BackgroundWorker._stop
    deferred,       \* number of `callback` closures queued by mu.executeDeferred
    cached_frames,  \* PtxBaker.cached_frames, a list
    listeners,      \* invalidate_cache closures registered on the emitter node
    current_frame,  \* cmds.currentTime(q=True)
    min_time,       \* cmds.playbackOptions(q=True, minTime=True)
    max_time,       \* cmds.playbackOptions(q=True, maxTime=True)
    script,         \* the xgen attribute's expression, split into lines
    ui_progress,    \* UiProgressBar.max_value and .progress
    xgenExpression, \* the 'xgenExpression' setting: the override of the footer
    ptex_file,      \* the file get_map_path_bake() names exists
    bakes,          \* per frame: preview bakes since the frame last left the cache
    awaiting,       \* frame removed by a change event while Running, not yet ticked
    bake_log,       \* the bake() calls of the last convert(): frame and result
    warning         \* the last message shown by cmds.warning, "" when none was

vars == <<is_busy, _stop, deferred, cached_frames, listeners, current_frame,
          min_time, max_time, script, ui_progress, xgenExpression,
          ptex_file, bakes, awaiting, bake_log, warning>>

workerVars == <<is_busy, _stop, deferred>>

mayaVars == <<current_frame, min_time, max_time>>

convertVars == <<script, ui_progress, xgenExpression, ptex_file, bake_log>>

(* ---------------------------- sequences ------------------------------- *)

Range(s) == {s[i] : i \in 1..Len(s)}

\* Python's range(a, b) as a list.
PyRange(a, b) == [i \in 1..(IF b > a THEN b - a ELSE 0) |-> a + i - 1]

\* list.index(x): position (from 1) of the first occurrence; x is in the list.
ListIndex(s, x) == CHOOSE i \in 1..Len(s) : s[i] = x /\ \A j \in 1..(i - 1) : s[j] # x

\* list.remove(x) when x is in the list: drops the first occurrence.
ListRemove(s, x) ==
    LET i == ListIndex(s, x)
    IN  SubSeq(s, 1, i - 1) \o SubSeq(s, i + 1, Len(s))

(* ---------------------------- frame cache ----------------------------- *)

get_start_frame == min_time

get_end_frame == max_time

get_current_frame == current_frame

\* PtxBaker.cache_is_complete: list equality of range(start, end) and the cache.
cache_is_complete == PyRange(get_start_frame, get_end_frame) = cached_frames

RECURSIVE FirstNotIn(_, _)
\* The `for item in frames` loop of cache_get_missing_frame.
FirstNotIn(frames, cache) ==
    IF frames = <<>> THEN None
    ELSE IF Head(frames) \notin Range(cache) THEN Head(frames)
    ELSE FirstNotIn(Tail(frames), cache)

\* A scan that always starts at the first frame of the range.
RotateNone(frames, c) == frames

\* `if current_frame in frames`: the rotation frames[index:] + frames[:index].
Rotate(frames, c) ==
    IF c \in Range(frames)
    THEN LET index == ListIndex(frames, c) - 1
         IN  SubSeq(frames, index + 1, Len(frames)) \o SubSeq(frames, 1, index)
    ELSE frames

\* PtxBaker.cache_get_missing_frame.
cache_get_missing_frame ==
    FirstNotIn(Rotate(PyRange(get_start_frame, get_end_frame), get_current_frame),
               cached_frames)

(* ---------------------------- settings -------------------------------- *)

\* PtxBaker.__init__: the required settings, in the order validate() reads them.
required_settings ==
    <<"xgenCollection", "xgenDescription", "xgenSequence", "xgenEmitter", "xgenAttribute">>

\* A settings store as the handlers see it: "" stands for a key that is
\* absent or holds an empty value (ProjectSettings.has is false for both).
\* The stores tried: complete, one key missing, nothing set.
SettingsStores ==
    {s \in [Range(required_settings) -> {"", "v"}] :
        Cardinality({k \in Range(required_settings) : s[k] = ""})
            \in {0, 1, Len(required_settings)}}

\* ProjectSettings.has
has(settings, id) == settings[id] # ""

RECURSIVE validate_from(_, _)
\* The loop of XgenAnimSettingsDependant.validate, from position i on.
validate_from(settings, i) ==
    IF i > Len(required_settings) THEN TRUE
    ELSE IF ~has(settings, required_settings[i]) THEN FALSE
    ELSE validate_from(settings, i + 1)

\* A validation that accepts every store.
validate_always(settings) == TRUE

\* XgenAnimSettingsDependant.validate
validate(settings) == validate_from(settings, 1)

(* ---------------------------- BackgroundWorker ------------------------ *)

\* The value BackgroundWorker.start() returns.
start_returns == IF is_busy THEN "False" ELSE "None"

\* BackgroundWorker.start(): its effect on the worker and the idle queue.
worker_start ==
    IF is_busy
    THEN UNCHANGED workerVars
    ELSE /\ deferred < MaxDeferred
         /\ is_busy' = TRUE
         /\ deferred' = deferred + 1
         /\ UNCHANGED _stop

\* BackgroundWorker.stop(): its effect on the worker.
worker_stop ==
    /\ is_busy' = FALSE
    /\ _stop' = TRUE
    /\ UNCHANGED deferred

\* A direct call of BackgroundWorker.start().
start ==
    /\ worker_start
    /\ awaiting' = None
    /\ UNCHANGED <<cached_frames, listeners, mayaVars, convertVars, bakes, warning>>

\* A stop() that also empties the cache.
stop_and_clear ==
    /\ worker_stop
    /\ cached_frames' = <<>>
    /\ awaiting' = None
    /\ UNCHANGED <<listeners, mayaVars, convertVars, bakes, warning>>

\* A direct call of BackgroundWorker.stop().
stop ==
    /\ worker_stop
    /\ awaiting' = None
    /\ UNCHANGED <<cached_frames, listeners, mayaVars, convertVars, bakes, warning>>

\* A preview tick that bakes the displayed frame whether it is cached or not.
convert_preview_always ==
    /\ cached_frames' = Append(cached_frames, get_current_frame)
    /\ bakes' = [bakes EXCEPT ![get_current_frame] = IF @ < 2 THEN @ + 1 ELSE @]

\* PtxBaker.convert_preview, the one registered per-tick callback.  The bake
\* call itself is commented out in the source; the bake step is the branch
\* that follows the cache test.
convert_preview ==
    IF get_current_frame \in Range(cached_frames)
    THEN UNCHANGED <<cached_frames, bakes>>
    ELSE /\ cached_frames' = Append(cached_frames, get_current_frame)
         /\ bakes' = [bakes EXCEPT ![get_current_frame] = IF @ < 2 THEN @ + 1 ELSE @]

\* A tick that runs the per-tick callback and does not reschedule itself.
callback_once ==
    /\ deferred > 0
    /\ IF _stop
       THEN /\ _stop' = FALSE
            /\ UNCHANGED <<cached_frames, bakes>>
       ELSE /\ convert_preview
            /\ UNCHANGED _stop
    /\ deferred' = deferred - 1
    /\ awaiting' = None
    /\ UNCHANGED <<is_busy, listeners, mayaVars, convertVars, warning>>

\* Maya runs one deferred `callback` closure (one tick).
callback ==
    /\ deferred > 0
    /\ IF _stop
       THEN /\ _stop' = FALSE
            /\ deferred' = deferred - 1
            /\ UNCHANGED <<cached_frames, bakes>>
       ELSE /\ convert_preview
            /\ deferred' = (deferred - 1) + 1
            /\ UNCHANGED _stop
    /\ awaiting' = None
    /\ UNCHANGED <<is_busy, listeners, mayaVars, convertVars, warning>>

(* ---------------------------- preview session ------------------------- *)

\* The value preview_start() returns: cmds.warning(...) returns None.
preview_start_returns(settings) == IF ~validate(settings) THEN "None" ELSE "True"

\* The warning preview_start() ends with, "" when it starts the worker.
preview_start_warning(settings) ==
    IF ~validate(settings) THEN "Missing required settings." ELSE ""

\* PtxBaker.preview_start
preview_start ==
    \E settings \in SettingsStores :
        IF ~validate(settings)
        THEN /\ warning' = preview_start_warning(settings)
             /\ awaiting' = None
             /\ UNCHANGED <<workerVars, cached_frames, listeners, mayaVars,
                            convertVars, bakes>>
        ELSE /\ listeners < MaxListeners
             /\ listeners' = listeners + 1
             /\ worker_start
             /\ awaiting' = None
             /\ UNCHANGED <<cached_frames, mayaVars, convertVars, bakes, warning>>

\* PtxBaker.preview_stop
preview_stop ==
    /\ worker_stop
    /\ awaiting' = None
    /\ UNCHANGED <<cached_frames, listeners, mayaVars, convertVars, bakes, warning>>

\* A closure that leaves the list as it is.
invalidate_cache_keep(cache, frame) == [cache |-> cache, raised |-> FALSE]

\* One invalidate_cache closure: list.remove raises ValueError when the
\* frame is not in the list and leaves the list as it is.
invalidate_cache(cache, frame) ==
    IF frame \in Range(cache)
    THEN [cache |-> ListRemove(cache, frame), raised |-> FALSE]
    ELSE [cache |-> cache, raised |-> TRUE]

RECURSIVE notify(_, _, _)
\* Maya calls every registered closure, one after the other; an exception
\* in one is reported and does not keep the others from running.
notify(cache, frame, n) ==
    IF n = 0 THEN [cache |-> cache, raised |-> FALSE]
    ELSE LET first == invalidate_cache(cache, frame)
             rest  == notify(first.cache, frame, n - 1)
         IN  [cache |-> rest.cache, raised |-> first.raised \/ rest.raised]

\* A change of the emitter node now would end with an exception in one of
\* the attribute-changed callbacks.
attribute_changed_raises ==
    notify(cached_frames, get_current_frame, listeners).raised

\* The emitter node changes: the attribute-changed callbacks run.
attribute_changed ==
    /\ listeners > 0
    /\ LET after == notify(cached_frames, get_current_frame, listeners)
       IN  /\ cached_frames' = after.cache
           /\ bakes' = IF get_current_frame \in Range(after.cache)
                       THEN bakes
                       ELSE [bakes EXCEPT ![get_current_frame] = 0]
    /\ awaiting' = IF get_current_frame \in Range(cached_frames) /\ is_busy
                   THEN get_current_frame
                   ELSE awaiting
    /\ UNCHANGED <<workerVars, listeners, mayaVars, convertVars, warning>>

(* ---------------------------- the host (Maya) ------------------------- *)

\* The user moves the playhead: cmds.currentTime changes.
set_current_time ==
    /\ \E f \in Frames : f # current_frame /\ current_frame' = f
    /\ awaiting' = None
    /\ UNCHANGED <<workerVars, cached_frames, listeners, min_time, max_time,
                   convertVars, bakes, warning>>

\* The user changes the playback range: cmds.playbackOptions changes.  Maya
\* keeps minTime <= maxTime.
set_playback_options ==
    /\ \E a \in MinTimes, b \in Times :
          /\ a <= b
          /\ <<a, b>> # <<min_time, max_time>>
          /\ min_time' = a
          /\ max_time' = b
    /\ awaiting' = None
    /\ UNCHANGED <<workerVars, cached_frames, listeners, current_frame,
                   convertVars, bakes, warning>>

(* ---------------------------- expression script ----------------------- *)

\* A script is a list of lines and a line a list of tokens: pieces of text
\* the code tells apart.  f is the frame number a generated token carries.
Tok(t) == [t |-> t, f |-> None]

FrameTok(t, f) == [t |-> t, f |-> f]

\* The marker token get_final_expression looks for.
Sentinel == Tok("$a")

Hash == Tok("#")

\* The two characters backslash, n that separate lines in the stored value.
Newline == Tok("\\n")

PaintMap == Tok("=map('${DESC}/paintmaps/length')")

BareMap == Tok("=map('${DESC}')")

\* The text matched by group(1) of the pattern, for each map( token.
map_group(tok) ==
    CASE tok.t = "=map('${DESC}/paintmaps/length')" -> "${DESC}/paintmaps/length"
      [] tok.t = "=map('${DESC}')"                  -> "${DESC}"
      [] tok.t = "=map('${DESC}%s/%s.%s.ptx')"      -> "${DESC}%s/%s.%s.ptx"

is_map(tok) ==
    tok.t \in {"=map('${DESC}/paintmaps/length')", "=map('${DESC}')",
               "=map('${DESC}%s/%s.%s.ptx')"}

\* str.replace('${DESC}', '')
strip_desc(path) ==
    CASE path = "${DESC}/paintmaps/length" -> "/paintmaps/length"
      [] path = "${DESC}"                  -> ""
      [] path = "${DESC}%s/%s.%s.ptx"      -> "%s/%s.%s.ptx"

\* '$a' in line
contains_sentinel(line) == \E i \in 1..Len(line) : line[i].t = Sentinel.t

RECURSIVE join(_)
\* The stored string of a script: its lines with the separator between them.
join(lines) ==
    IF lines = <<>> THEN <<>>
    ELSE IF Len(lines) = 1 THEN lines[1]
    ELSE lines[1] \o <<Newline>> \o join(Tail(lines))

\* XgenAttributeWrapper.get_lines: value.split('\\n') of the stored string.
get_lines(value) == value

\* The result of re.search when the pattern does not match.
NoMatch == "<None>"

\* A scan that finds a map in every script.
get_assigned_map_any(value) == "/paintmaps/length"

\* PtxBaker.get_assigned_map: the pattern is anchored at the start of the
\* value, [^#]+ is greedy, so the match is the last map(' that has at least
\* one character and no '#' before it.
get_assigned_map(value) ==
    LET text == join(value)
        found == {i \in 2..Len(text) :
                    /\ is_map(text[i])
                    /\ \A j \in 1..(i - 1) : text[j] # Hash}
    IN  IF found = {} THEN NoMatch
        ELSE strip_desc(map_group(text[CHOOSE i \in found : \A j \in found : j <= i]))

RECURSIVE final_expression_from(_, _)
\* The loop of get_final_expression over reversed(range(len(lines))).
final_expression_from(lines, index) ==
    IF index < 1 THEN <<>>
    ELSE IF contains_sentinel(lines[index]) THEN lines[index]
    ELSE final_expression_from(lines, index - 1)

RECURSIVE first_expression_from(_, _)
\* A scan from the first line forward.
first_expression_from(lines, index) ==
    IF index > Len(lines) THEN <<>>
    ELSE IF contains_sentinel(lines[index]) THEN lines[index]
    ELSE first_expression_from(lines, index + 1)

\* A scan that returns the first line holding the marker.
get_first_expression(value) == first_expression_from(get_lines(value), 1)

\* PtxBaker.get_final_expression
get_final_expression(value) ==
    final_expression_from(get_lines(value), Len(get_lines(value)))

\* PtxBaker.get_expression: ProjectSettings.get('xgenExpression', default)
\* returns the default when the key is absent or empty.
get_expression(override, value) ==
    IF override # <<>> THEN override
    ELSE IF get_final_expression(value) # <<>> THEN get_final_expression(value)
    ELSE <<Sentinel>>

\* The banner convert() writes after clear().
header ==
    << <<Hash, Tok(" This script has been generated by xgen animated maps script.")>>,
       <<Hash, Tok(" You're free to modify it as you please, just remember to do that with care.")>>,
       <<Hash, Tok(" You may be surprised by the enormous size of the script, considering the alleged ability to")>>,
       <<Hash, Tok(" assign multiple expression variables within strings, yet this is the safest way of")>>,
       <<Hash, Tok(" providing animated maps to xgen channels.")>>,
       <<>> >>

\* The three lines convert() appends for one frame.
fragment(frame, start_frame, end_frame) ==
    << IF ~(frame = end_frame)
       THEN <<FrameTok(IF frame = start_frame THEN "if ($frame <= %s) {"
                                              ELSE "else if ($frame <= %s) {", frame)>>
       ELSE <<Tok("else {")>>,
       <<Tok("\\t"), Sentinel, FrameTok("=map('${DESC}%s/%s.%s.ptx')", frame), Tok(";")>>,
       <<Tok("}")>> >>

RECURSIVE body(_, _, _)
\* The lines appended by the loop of convert() over the frames.
body(frames, start_frame, end_frame) ==
    IF frames = <<>> THEN <<>>
    ELSE fragment(Head(frames), start_frame, end_frame)
         \o body(Tail(frames), start_frame, end_frame)

\* XgenAttributeWrapper.commit: every appended line ends with a newline, so
\* the stored value splits into the lines and one empty string after them.
commit(lines) == lines \o << <<>> >>

(* ---------------------------- bake ------------------------------------ *)

\* PtxBaker.bake for one frame; ok: cmds.ptexBake wrote its output file.
\* The file stays where it is when a later cmds.ptexBake writes nothing.
\* result: the frame whose artifact was copied, None when there is no file.
bake(frame, ok, ptex) ==
    LET isfile == ptex \/ ok
    IN  [ptex_file |-> isfile,
         call      |-> [frame |-> frame, result |-> IF isfile THEN frame ELSE None]]

RECURSIVE bake_all(_, _, _)
\* The bake calls of the loop of convert(), whose results it drops.
bake_all(frames, written, ptex) ==
    IF frames = <<>> THEN [ptex_file |-> ptex, log |-> <<>>]
    ELSE LET b    == bake(Head(frames), Head(frames) \in written, ptex)
             rest == bake_all(Tail(frames), written, b.ptex_file)
         IN  [ptex_file |-> rest.ptex_file, log |-> <<b.call>> \o rest.log]

(* ---------------------------- batch convert --------------------------- *)

\* Python's `x or default` for an optional integer argument.
py_or(x, default) == IF x = None \/ x = 0 THEN default ELSE x

\* Arguments of convert(): left out (None), 0, or a frame of the timeline.
StartArgs == {None, 0, 1}

EndArgs == {None, 0, MaxFrame}

\* Values of the 'xgenExpression' setting: unset or empty, "$a*2", "$b".
Expressions == {<<>>, <<Sentinel, Tok("*2")>>, <<Tok("$b")>>}

\* The user types into the 'Final Expression' field: UiElementWrapper.set_value.
set_value ==
    /\ \E e \in Expressions : e # xgenExpression /\ xgenExpression' = e
    /\ awaiting' = None
    /\ UNCHANGED <<workerVars, cached_frames, listeners, mayaVars, script,
                   ui_progress, ptex_file, bake_log, bakes, warning>>

\* The warning convert() ends with, "" when it runs to the commit.
convert_warning(settings) ==
    IF ~validate(settings) THEN "Missing required settings."
    ELSE IF get_assigned_map(script) \in {NoMatch, ""}
    THEN "No map is currently assigned to the channel selected."
    ELSE ""

\* PtxBaker.convert(start_frame, end_frame) with the settings store it reads.
convert_with(settings) ==
    IF ~validate(settings)
    THEN /\ warning' = convert_warning(settings)
         /\ awaiting' = None
         /\ UNCHANGED <<workerVars, cached_frames, listeners, mayaVars,
                        convertVars, bakes>>
    ELSE IF get_assigned_map(script) \in {NoMatch, ""}
    THEN /\ warning' = convert_warning(settings)
         /\ awaiting' = None
         /\ UNCHANGED <<workerVars, cached_frames, listeners, mayaVars,
                        convertVars, bakes>>
    ELSE \E start_arg \in StartArgs, end_arg \in EndArgs :
         \E written \in SUBSET Range(PyRange(py_or(start_arg, get_start_frame),
                                             py_or(end_arg, get_end_frame))) :
         LET start_frame == py_or(start_arg, get_start_frame)
             end_frame   == py_or(end_arg, get_end_frame)
             expression  == get_expression(xgenExpression, script)
             frames      == PyRange(start_frame, end_frame)
             baked       == bake_all(frames, written, ptex_file)
         IN  /\ ui_progress' = [max_value |-> end_frame,
                                progress  |-> start_frame + Len(frames)]
             /\ script' = commit(header \o body(frames, start_frame, end_frame)
                                        \o <<expression>>)
             /\ current_frame' = IF frames = <<>> THEN current_frame
                                 ELSE frames[Len(frames)]
             /\ ptex_file' = baked.ptex_file
             /\ bake_log' = baked.log
             /\ awaiting' = None
             /\ UNCHANGED <<workerVars, cached_frames, listeners, min_time,
                            max_time, xgenExpression, bakes, warning>>

\* PtxBaker.convert(start_frame, end_frame)
convert == \E settings \in SettingsStores : convert_with(settings)

\* Attribute expressions a user may have typed before a conversion.
InitialScripts ==
    { << <<Sentinel, PaintMap, Tok(";"), Hash, Tok("3dpaint,5.0")>>, <<Sentinel>> >>,
      << <<Sentinel, PaintMap, Tok(";")>>, <<Sentinel, Tok("*0.5")>>, <<Tok("$b")>> >>,
      << <<Tok("$b"), PaintMap, Tok(";")>>, <<Tok("$b")>> >>,
      << <<Sentinel>> >>,
      << <<Hash, Tok(" length")>>, <<Sentinel, PaintMap, Tok(";")>> >>,
      << <<Sentinel, BareMap, Tok(";")>> >> }

\* The user edits the attribute's expression in the xgen editor.
edit_expression ==
    /\ \E s \in InitialScripts : s # script /\ script' = s
    /\ awaiting' = None
    /\ UNCHANGED <<workerVars, cached_frames, listeners, mayaVars, ui_progress,
                   xgenExpression, ptex_file, bake_log, bakes, warning>>

(* ---------------------------- specifications -------------------------- *)

Init ==
    /\ is_busy = FALSE
    /\ _stop = FALSE
    /\ deferred = 0
    /\ cached_frames = <<>>
    /\ listeners = 0
    /\ current_frame = 0
    /\ min_time = 0
    /\ max_time = MaxFrame
    /\ script = << <<Sentinel, PaintMap, Tok(";"), Hash, Tok("3dpaint,5.0")>>, <<Sentinel>> >>
    /\ ui_progress = [max_value |-> 1000, progress |-> 0]
    /\ xgenExpression = <<>>
    /\ ptex_file = FALSE
    /\ bakes = [f \in Frames |-> 0]
    /\ awaiting = None
    /\ bake_log = <<>>
    /\ warning = ""

\* The preview session: the scheduler, the cache and the host's timeline.
NextPreview ==
    \/ start
    \/ stop
    \/ callback
    \/ preview_start
    \/ preview_stop
    \/ attribute_changed
    \/ set_current_time
    \/ set_playback_options

\* The batch conversion: the attribute's script, the bake files, the timeline.
NextConvert ==
    \/ convert
    \/ edit_expression
    \/ set_value
    \/ set_playback_options

\* One window: the Preview toggle and the Assign button drive the same
\* PtxBaker, while deferred ticks run and the user moves the playhead.
NextSession ==
    \/ preview_start
    \/ preview_stop
    \/ callback
    \/ convert
    \/ set_current_time

\* The scheduler alone: direct calls of the worker, ticks, playhead moves.
NextWorker ==
    \/ start
    \/ stop
    \/ callback
    \/ set_current_time

Next == NextPreview \/ NextConvert \/ NextSession \/ NextWorker

Spec == Init /\ [][NextPreview]_vars

SpecConvert == Init /\ [][NextConvert]_vars

SpecSession == Init /\ [][NextSession]_vars

\* Maya runs a deferred callback as soon as it is idle: a tick that is
\* pending is run in the end.
SpecLive == Init /\ [][NextWorker]_vars /\ WF_vars(callback)

(* ---------------------------- properties ------------------------------ *)

FramesOfRange == {f \in Frames : get_start_frame <= f /\ f < get_end_frame}

Cached == Range(cached_frames)

\* C1: whenever start() is refused because the worker is busy (a second
\* start() with no stop() in between), it returns False, the worker stays
\* busy, and exactly one deferred tick is pending.
C1_SecondStartOneTick ==
    start_returns = "False" => (is_busy /\ deferred = 1)

\* C2: once stop() has been called and start() has not been called again
\* (the worker is not busy), a tick that still runs is the one that finds
\* the stop flag: it invokes no per-tick callback and schedules no tick.
C2_NoTickAfterStop ==
    [][(~is_busy /\ callback) => (_stop /\ deferred' = deferred - 1)]_vars

\* C3: in a preview session the bake step for a frame runs at most once
\* between two invalidations of it: a cached frame is never baked again.
C3_BakedOnce ==
    \A f \in Frames : bakes[f] <= 1 /\ (f \in Cached => bakes[f] = 1)

\* C3 witness: the playhead is back on the frame that was baked first,
\* other frames were baked since, and the tick stream is running.
C3_Witness ==
    /\ Len(cached_frames) >= 2
    /\ current_frame = cached_frames[1]
    /\ bakes[current_frame] = 1
    /\ is_busy /\ ~_stop /\ deferred = 1

\* C4: cache_is_complete() is true exactly when cache_get_missing_frame()
\* returns None, for every range and every reachable cache.
C4_CompleteIffNoMissing ==
    cache_is_complete <=> (cache_get_missing_frame = None)

\* The scan order of the frame selector as the specification words it:
\* c, c+1, ..., e-1, s, ..., c-1 when c is in [s,e), else s, ..., e-1.
ScanOrder ==
    LET s == get_start_frame
        e == get_end_frame
        c == get_current_frame
        n == IF e > s THEN e - s ELSE 0
    IN  IF c >= s /\ c < e
        THEN [i \in 1..n |-> s + ((c - s + i - 1) % n)]
        ELSE [i \in 1..n |-> s + i - 1]

\* C5: cache_get_missing_frame returns the first frame of the scan order
\* that is not cached; it is a frame of the range as long as one is
\* missing, and None when every frame of the range is cached.
C5_SelectNext ==
    LET missing == {i \in 1..Len(ScanOrder) : ScanOrder[i] \notin Cached}
    IN  /\ missing # {} =>
              /\ cache_get_missing_frame \in FramesOfRange
              /\ cache_get_missing_frame \notin Cached
              /\ cache_get_missing_frame =
                     ScanOrder[CHOOSE i \in missing : \A j \in missing : i <= j]
        /\ FramesOfRange \subseteq Cached <=> cache_get_missing_frame = None

\* C5 witness: the playhead is inside the range, every frame from it to
\* the end of the range is cached, and the selector wraps around to a
\* missing frame before the playhead.
C5_Witness ==
    /\ current_frame \in FramesOfRange
    /\ current_frame > get_start_frame
    /\ \A f \in FramesOfRange : f >= current_frame => f \in Cached
    /\ cache_get_missing_frame # None
    /\ cache_get_missing_frame < current_frame

\* C6: a change notification that arrives while the displayed frame is not
\* cached completes without error and leaves the cache unchanged.
C6_InvalidateAbsentNoop ==
    (listeners > 0 /\ current_frame \notin Cached) =>
        /\ ~attribute_changed_raises
        /\ notify(cached_frames, get_current_frame, listeners).cache = cached_frames

\* C7: after a change notification has removed the displayed, cached frame
\* while the worker was busy (Running), the next tick bakes that frame
\* again and puts it back into the cache, the playhead not having moved.
C7_NextTickRebakes ==
    [][(awaiting # None /\ callback)
          => (~_stop /\ awaiting \in Range(cached_frames'))]_vars

\* C8 as claimed: invalidating a frame that is in the cache makes
\* cache_is_complete false and leaves the frame out of the cache, for
\* every cache and range.
C8_InvalidateMakesIncomplete ==
    [][(current_frame \in Cached /\ attribute_changed)
          => (~cache_is_complete' /\ current_frame \notin Range(cached_frames'))]_vars

\* C8 amended: invalidating a cached frame that lies in the playback range
\* makes cache_is_complete false for that range and leaves the frame out
\* of the cache, so that a tick can bake it again.
C8_InvalidateInRange ==
    [][(current_frame \in Cached /\ current_frame \in FramesOfRange /\ attribute_changed)
          => (~cache_is_complete' /\ current_frame \notin Range(cached_frames'))]_vars

\* C8 witness: a change notification has just removed the displayed frame,
\* a frame of the range, from a cache that held every frame of the range.
C8_Witness ==
    /\ awaiting = current_frame
    /\ current_frame \in FramesOfRange
    /\ current_frame \notin Cached
    /\ FramesOfRange \ {current_frame} \subseteq Cached
    /\ Cardinality(FramesOfRange) >= 2
    /\ ~cache_is_complete

\* The attribute holds a script written by convert(): only convert() writes
\* the banner, and bake_log is the log of the call that wrote it.
IsGenerated ==
    /\ Len(script) > Len(header)
    /\ SubSeq(script, 1, Len(header)) = header

\* The first line of the i-th body fragment of the committed script.
FragmentHead(i) == script[Len(header) + 3 * (i - 1) + 1]

\* The map line of the i-th body fragment of the committed script.
FragmentMap(i) == script[Len(header) + 3 * (i - 1) + 2]

\* C9: a convert over n >= 1 frames commits exactly n body fragments in
\* ascending frame order, each naming its own frame's artifact; the last
\* one opens with a plain `else`, the first (of several) with `if`, the
\* ones between with `else if`.
C9_IfElseIfElse ==
    (IsGenerated /\ Len(bake_log) >= 1) =>
        LET n == Len(bake_log)
        IN  /\ Len(script) = Len(header) + 3 * n + 2
            /\ \A i \in 1..n :
                  /\ i > 1 => bake_log[i].frame = bake_log[i - 1].frame + 1
                  /\ FragmentMap(i) =
                        <<Tok("\\t"), Sentinel,
                          FrameTok("=map('${DESC}%s/%s.%s.ptx')", bake_log[i].frame),
                          Tok(";")>>
                  /\ FragmentHead(i) =
                        IF i = n THEN <<Tok("else {")>>
                        ELSE IF i = 1
                        THEN <<FrameTok("if ($frame <= %s) {", bake_log[i].frame)>>
                        ELSE <<FrameTok("else if ($frame <= %s) {", bake_log[i].frame)>>

\* The footer the specification asks for, given the script convert() found.
ExpectedFooter(previous) ==
    LET marked == {i \in 1..Len(previous) :
                     \E k \in 1..Len(previous[i]) : previous[i][k] = Sentinel}
    IN  IF xgenExpression # <<>> THEN xgenExpression
        ELSE IF marked # {} THEN previous[CHOOSE i \in marked : \A j \in marked : j <= i]
        ELSE <<Sentinel>>

\* C10: the script convert() commits ends with exactly one footer line
\* after the body fragments: the override when one is set, else the last
\* line of the script found before the conversion that contains `$a`,
\* else the literal `$a`.  (A step that changes the script into one with
\* the banner is a step of convert().)
C10_Footer ==
    [][(script' # script /\ IsGenerated') =>
          LET n == Len(bake_log')
          IN  /\ Len(script') = Len(header) + 3 * n + 2
              /\ script'[Len(header) + 3 * n + 1] = ExpectedFooter(script)
              /\ script'[Len(header) + 3 * n + 2] = <<>>]_vars

\* C10 witness: a committed script over several frames whose footer is a
\* line of the previous script that was not its last line.
C10_Witness ==
    /\ IsGenerated
    /\ Len(bake_log) >= 2
    /\ script[Len(script) - 1] = <<Sentinel, Tok("*0.5")>>

\* A settings store in which a required key is absent or empty.
Incomplete(settings) == \E k \in Range(required_settings) : settings[k] = ""

\* C11: when a required setting is absent or empty, convert() ends with the
\* validation warning, and the call that shows this warning has no side
\* effect: no bake call and no bake file, and the cache, the attribute's
\* script, the progress bar and the playhead are as they were.
C11_InvalidSettingsNoEffect ==
    /\ [](\A settings \in SettingsStores :
            Incomplete(settings) =>
                convert_warning(settings) = "Missing required settings.")
    /\ [][(warning' = "Missing required settings." /\ warning' # warning) =>
             UNCHANGED <<script, ui_progress, ptex_file, bake_log,
                         cached_frames, bakes, current_frame>>]_vars

\* C11 witness: convert() has ended with the validation warning on an
\* attribute that has a map assigned, over a range that is not empty, and
\* nothing was baked or written.
C11_Witness ==
    /\ warning = "Missing required settings."
    /\ get_assigned_map(script) \notin {NoMatch, ""}
    /\ FramesOfRange # {}
    /\ ~IsGenerated
    /\ bake_log = <<>>
    /\ ~ptex_file
    /\ ui_progress = [max_value |-> 1000, progress |-> 0]

\* The script holds a map('...') reference somewhere.
ReferencesMap ==
    \E i \in 1..Len(script) : \E k \in 1..Len(script[i]) : is_map(script[i][k])

\* C12: when the attribute's script references no map, so that the
\* assigned-map scan finds nothing, convert() with complete settings ends with the "no map" warning, and the
\* call that shows this warning has no side effect: no bake call and no bake
\* file, and the script, the cache, the progress bar and the playhead are as
\* they were.
C12_NoMapNoEffect ==
    /\ [](~ReferencesMap =>
            \A settings \in SettingsStores :
                ~Incomplete(settings) =>
                    convert_warning(settings) =
                        "No map is currently assigned to the channel selected.")
    /\ [][(/\ warning' = "No map is currently assigned to the channel selected."
           /\ warning' # warning) =>
             UNCHANGED <<script, ui_progress, ptex_file, bake_log,
                         cached_frames, bakes, current_frame>>]_vars

\* C12 witness: convert() has ended with the "no map" warning on a script
\* typed by the user that references no map, over a range that is not
\* empty, and nothing was baked or written.
C12_Witness ==
    /\ warning = "No map is currently assigned to the channel selected."
    /\ ~ReferencesMap
    /\ script \in InitialScripts
    /\ FramesOfRange # {}
    /\ bake_log = <<>>
    /\ ~ptex_file
    /\ ui_progress = [max_value |-> 1000, progress |-> 0]

\* The script in the attribute names the artifact of this frame.
ReferencesFrame(frame) ==
    \E i \in 1..Len(script) : \E k \in 1..Len(script[i]) :
        script[i][k] = FrameTok("=map('${DESC}%s/%s.%s.ptx')", frame)

\* C13: in a batch convert a bake() that leaves no artifact for its frame
\* is the last bake call of the run, and the script committed by the run
\* does not name that frame's artifact.
C13_BakeFailureFatal ==
    \A i \in 1..Len(bake_log) :
        bake_log[i].result = None =>
            /\ i = Len(bake_log)
            /\ ~(IsGenerated /\ ReferencesFrame(bake_log[i].frame))

\* C14: every frame in the cache is one for which a bake() call has found
\* its artifact (bake_log holds the bake() calls made so far: a preview
\* tick makes none).
C14_CachedFramesBaked ==
    \A f \in Cached :
        \E i \in 1..Len(bake_log) : bake_log[i] = [frame |-> f, result |-> f]

\* C15: while the preview scheduler is Running (is_busy), convert() is
\* rejected: no step bakes a frame or commits a script.  (A batch run is
\* one handler that runs to its end, so preview_start() cannot be called
\* during it.)
C15_ConvertRejectedWhileRunning ==
    [][is_busy => /\ script' = script
                  /\ bake_log' = bake_log
                  /\ ptex_file' = ptex_file
                  /\ ui_progress' = ui_progress]_vars

\* C16: the cache is empty when a session starts and when it ends: after a
\* step that starts or stops the preview scheduler, and after a step of a
\* convert run, no frame is in the cache.
C16_CacheEmptyBetweenSessions ==
    [][(is_busy' # is_busy \/ bake_log' # bake_log \/ script' # script)
          => cached_frames' = <<>>]_vars

\* C17: a convert run that bakes no frame commits nothing: a script written
\* by convert() holds the fragment of at least one frame, never the banner
\* and the footer alone.
C17_NoFramesNoCommit ==
    IsGenerated => \E f \in Frames : ReferencesFrame(f)

\* The tick streams that go on rescheduling themselves: every pending tick
\* belongs to one stream, and a stream ends only when its tick finds the
\* stop flag set, which that tick clears.
SurvivingStreams == deferred - (IF _stop THEN 1 ELSE 0)

\* C18: after any sequence of start(), stop() and ticks at most one tick
\* stream keeps rescheduling itself.
C18_AtMostOneStream == SurvivingStreams <= 1

\* What one call of the registered per-tick callback leaves in the cache.
AfterOneCallback ==
    IF current_frame \in Cached THEN cached_frames
    ELSE Append(cached_frames, current_frame)

\* C19 as claimed: a tick that finds the stop flag set clears it, invokes no
\* callback, schedules no tick, and the scheduler is Idle afterwards; a tick
\* that finds it clear invokes the registered callback once and schedules
\* exactly one next tick.
C19_TickThenIdle ==
    [][callback =>
          IF _stop
          THEN /\ ~_stop'
               /\ cached_frames' = cached_frames
               /\ deferred' = deferred - 1
               /\ ~is_busy'
          ELSE /\ ~_stop'
               /\ cached_frames' = AfterOneCallback
               /\ deferred' = deferred]_vars

\* C19 amended: a tick that finds the stop flag set clears it, invokes no
\* callback, schedules no tick and leaves is_busy as it is (Idle unless
\* start() was called again since the stop()); a tick that finds it clear
\* invokes the registered callback once and schedules exactly one next tick.
C19_TickStep ==
    [][callback =>
          IF _stop
          THEN /\ ~_stop'
               /\ cached_frames' = cached_frames
               /\ deferred' = deferred - 1
               /\ is_busy' = is_busy
          ELSE /\ ~_stop'
               /\ cached_frames' = AfterOneCallback
               /\ deferred' = deferred
               /\ is_busy' = is_busy]_vars

\* C19 witness: ticks have filled the cache, stop() was called, and the
\* tick after it has cleared the flag and scheduled nothing.
C19_Witness ==
    /\ ~is_busy
    /\ ~_stop
    /\ deferred = 0
    /\ Len(cached_frames) >= 2

\* C20: on a preview tick (the stop flag is clear) with the displayed frame
\* not in the cache, the frame that is baked and cached is the one
\* cache_get_missing_frame returns, wherever the playhead is; with the
\* displayed frame in the cache the tick bakes nothing.
C20_TickBakesSelectorPick ==
    [][(~_stop /\ callback) =>
          IF current_frame \in Cached
          THEN cached_frames' = cached_frames
          ELSE cached_frames' =
                   IF cache_get_missing_frame = None THEN cached_frames
                   ELSE Append(cached_frames, cache_get_missing_frame)]_vars

\* C21: a tick that finds the stop flag clear and after which every frame
\* of the playback range (a range that is not empty) is in the cache is the
\* last of its stream: it schedules no tick and the scheduler is Idle, with
\* no stop() called.
C21_StopsWhenComplete ==
    [][(/\ ~_stop
        /\ FramesOfRange # {}
        /\ FramesOfRange \subseteq Range(cached_frames')
        /\ callback)
          => (deferred' = deferred - 1 /\ ~is_busy')]_vars

\* C22: after a convert run has committed its script, every frame the run
\* baked (bake() found the artifact) is in the cache.
C22_ConvertMarksCache ==
    IsGenerated =>
        \A i \in 1..Len(bake_log) :
            bake_log[i].result # None => bake_log[i].frame \in Cached

\* C23: in every reachable state of a preview session the cache holds each
\* frame at most once, and so a change event on a cached frame leaves no
\* occurrence of that frame in the cache.
C23_NoDuplicates ==
    /\ [](\A i, j \in 1..Len(cached_frames) :
            i # j => cached_frames[i] # cached_frames[j])
    /\ [][(current_frame \in Cached /\ attribute_changed)
             => current_frame \notin Range(cached_frames')]_vars

\* C23 witness: with several tick streams pending and several invalidation
\* callbacks registered, a change event has just removed the displayed
\* frame from a cache that holds other frames.
C23_Witness ==
    /\ awaiting = current_frame
    /\ current_frame \notin Cached
    /\ Len(cached_frames) >= 2
    /\ deferred >= 2
    /\ listeners >= 2

\* C24: the cache changes only when a tick appends the displayed frame or
\* a change event removes the displayed frame; start() and stop() (and the
\* queries, which are evaluated in every state) leave the list as it is,
\* in content and order.
C24_CacheChangedOnlyByTickAndInvalidate ==
    [][/\ cached_frames' # cached_frames =>
            \/ /\ cached_frames' = Append(cached_frames, current_frame)
               /\ ~_stop
               /\ callback
            \/ /\ current_frame \in Cached
               /\ cached_frames' = ListRemove(cached_frames, current_frame)
               /\ attribute_changed
       /\ (is_busy' # is_busy \/ _stop' # _stop) =>
            cached_frames' = cached_frames]_vars

\* C24 witness: ticks have filled the cache in playhead order, not in
\* ascending order, and stop() has been called since: the list is as the
\* ticks left it.
C24_Witness ==
    /\ ~is_busy
    /\ _stop
    /\ deferred >= 1
    /\ Len(cached_frames) >= 2
    /\ cached_frames[1] > cached_frames[2]

\* C25: whenever the worker is busy (start() was accepted and stop() was
\* not called since), its tick stream invokes the registered callback in
\* the end: the displayed frame gets into the cache, unless stop() is
\* called first; whatever calls of start() and stop() came before.
C25_StartedWorkerTicks ==
    is_busy ~> (~is_busy \/ current_frame \in Cached)

\* C26: at most one invalidation callback is registered on the emitter,
\* and none while no preview session is running (after preview_stop()).
C26_OneSubscription ==
    listeners <= (IF is_busy THEN 1 ELSE 0)

====
